---- MODULE Spec2Model ----
(***************************************************************************)
(* TeleChat backend (src/main.py): the notification dispatch of            *)
(* POST /api/messages/send-notif, the push-token registry of               *)
(* POST /api/fcm/register, and the pure helpers they use.                  *)
(*                                                                         *)
(* Python dicts are functions with a partial domain (the dict's keys);     *)
(* a Firestore snapshot is [exists, data]; Python's None is the value      *)
(* None; an exception is a result whose status is not 200.                 *)
(***************************************************************************)
EXTENDS Integers, Sequences, FiniteSets, TLC

VARIABLES
    chats,        \* Firestore collection "chats":      chat id -> snapshot
    users,        \* Firestore collection "users":      user id -> snapshot
    userTokens,   \* Firestore collection "userTokens": user id -> snapshot
    pc,           \* position of the request handler
    req,          \* SendMessageNotifRequest being handled
    meta,         \* result of get_chat_metadata
    target_uids,  \* resolved recipients
    sender,       \* result of get_user_profile(sender_id)
    title_base,   \* shared title
    body_base,    \* shared body
    idx,          \* index in target_uids of the next loop iteration
    sent,         \* response list "sent"
    skipped,      \* response list "skipped"
    status,       \* HTTP status of the finished request, 0 while none
    calls,        \* store reads and provider sends made by the request, in order
    outbox,       \* every messaging.send attempt: token, data, result
    lastReg,      \* history: token of the latest successful register call per user
    looked,       \* result of the latest get_fcm_token_for_user probe
    arg,          \* input of the pure function under evaluation
    ret           \* its result

store == <<chats, users, userTokens>>
reqvars == <<pc, req, meta, target_uids, sender, title_base, body_base, idx,
             sent, skipped, status, calls, outbox>>
vars == <<chats, users, userTokens, pc, req, meta, target_uids, sender,
          title_base, body_base, idx, sent, skipped, status, calls, outbox,
          lastReg, looked, arg, ret>>

-----------------------------------------------------------------------------
(* Bounds and domains *)

MaxParticipants == 3

Empty == ""
None == "<None>"
Users == {"u1", "u2", "u3"}
Uids == Users \cup {Empty}
ChatIds == {"c1", "c2"}
Kinds == {"individual", "group"}
Tokens == {"tok1", "tok2"}
MsgIds == {"projects/telechat/messages/1"}

HTTP_OK == 200
HTTP_BAD_REQUEST == 400
HTTP_NOT_FOUND == 404
HTTP_SERVER_ERROR == 500
PREVIEW_MAX == 120

EmptyDict == [k \in {} |-> FALSE]
NoDoc == [exists |-> FALSE, data |-> EmptyDict]
Doc(d) == [exists |-> TRUE, data |-> d]

\* dict.get(key, default)
Get(d, k, default) == IF k \in DOMAIN d THEN d[k] ELSE default
\* {**a, **b}
Merge(a, b) == [k \in DOMAIN a \cup DOMAIN b |-> IF k \in DOMAIN b THEN b[k] ELSE a[k]]
\* Python truthiness of a string-or-None value, and of a list
Falsy(v) == v = None \/ v = ""
\* x or y, for string-or-None values
Or(x, y) == IF Falsy(x) THEN y ELSE x
\* d.get(k) or alt, for a list-valued key (an absent key and [] are both falsy)
GetListOr(d, k, alt) == IF k \in DOMAIN d /\ d[k] # <<>> THEN d[k] ELSE alt

SeqsUpTo(S, n) == UNION {[1..k -> S] : k \in 0..n}
Range(s) == {s[i] : i \in 1..Len(s)}
Last(list) == list[Len(list)]
Min(a, b) == IF a <= b THEN a ELSE b

-----------------------------------------------------------------------------
(* Constants and defaults *)

DEFAULT_NOTIFICATION_SETTINGS ==
    [enabled |-> TRUE, groupsEnabled |-> TRUE, contactsEnabled |-> TRUE,
     previewMode |-> "full", ignoredGroups |-> <<>>, ignoredContacts |-> <<>>,
     mutedChats |-> <<>>]

-----------------------------------------------------------------------------
(* Firestore helpers: each takes the snapshot its .get() returned *)

\* a chat lookup that does not test snap.exists
MutGetChatMetadataNoCheck(snap) ==
    [status |-> HTTP_OK, type |-> "individual", name |-> "Utilisateur",
     photoURL |-> "", participants |-> <<>>]

\* get_chat_metadata after a successful read
get_chat_metadata(snap) ==
    IF ~snap.exists THEN [status |-> HTTP_NOT_FOUND]
    ELSE LET data == snap.data
             chat_type == Get(data, "type", "individual")
             participants == GetListOr(data, "participants",
                                       GetListOr(data, "members", <<>>))
             name == Or(Get(data, "name", None),
                        IF chat_type = "group" THEN "Groupe" ELSE "Utilisateur")
             photo == IF chat_type = "group" THEN Get(data, "groupPhotoUrl", None) ELSE ""
         IN [status |-> HTTP_OK, type |-> chat_type, name |-> name,
             photoURL |-> Or(photo, ""), participants |-> participants]

get_user_profile(snap) ==
    IF ~snap.exists THEN [displayName |-> "Utilisateur", photoURL |-> ""]
    ELSE LET d == snap.data
         IN [displayName |-> Or(Get(d, "name", None),
                                Or(Get(d, "displayName", None), "Utilisateur")),
             photoURL |-> Or(Get(d, "profilePhotoUrl", None), "")]

\* a merge in the wrong order: the defaults overwrite the stored fields
MutGetUserNotificationSettingsNoOverlay(snap) ==
    IF ~snap.exists THEN DEFAULT_NOTIFICATION_SETTINGS
    ELSE Merge(Get(snap.data, "notificationSettings", EmptyDict),
               DEFAULT_NOTIFICATION_SETTINGS)

get_user_notification_settings(snap) ==
    IF ~snap.exists THEN DEFAULT_NOTIFICATION_SETTINGS
    ELSE LET d == snap.data
             s == Get(d, "notificationSettings", EmptyDict)
             out0 == Merge(DEFAULT_NOTIFICATION_SETTINGS, s)
             out1 == IF "mutedChats" \in DOMAIN d
                     THEN [out0 EXCEPT !["mutedChats"] = d["mutedChats"]]
                     ELSE out0
         IN [out1 EXCEPT !["ignoredGroups"] = GetListOr(out1, "ignoredGroups", <<>>),
                         !["ignoredContacts"] = GetListOr(out1, "ignoredContacts", <<>>),
                         !["mutedChats"] = GetListOr(out1, "mutedChats", <<>>)]

get_fcm_token_for_user(snap) ==
    IF ~snap.exists THEN None ELSE Get(snap.data, "token", None)

-----------------------------------------------------------------------------
(* Recipient resolution *)

\* a filter without the "uid and" test
MutListGroupReceiversKeepEmpty(participants, sender_id) ==
    SelectSeq(participants, LAMBDA uid : uid # sender_id)

\* [uid for uid in participants if uid and uid != sender_id]
list_group_receivers(participants, sender_id) ==
    SelectSeq(participants, LAMBDA uid : uid # Empty /\ uid # sender_id)

\* a receiver lookup that forgets to leave the sender out
MutGetIndividualReceiverFirst(participants, sender_id) ==
    IF Len(participants) < 2 THEN [status |-> HTTP_BAD_REQUEST, val |-> None]
    ELSE [status |-> HTTP_OK, val |-> participants[1]]

get_individual_receiver(participants, sender_id) ==
    IF Len(participants) < 2 THEN [status |-> HTTP_BAD_REQUEST, val |-> None]
    ELSE LET others == SelectSeq(participants, LAMBDA uid : uid # sender_id)
         IN IF others = <<>> THEN [status |-> HTTP_BAD_REQUEST, val |-> None]
            ELSE [status |-> HTTP_OK, val |-> others[1]]

-----------------------------------------------------------------------------
(* Server-side policy gate *)

In(x, s) == x \in Range(s)

\* a gate that looks at mutedChats before the global switch
MutServerShouldNotifyMutedFirst(settings, chat_type, chat_id, sender_id) ==
    IF In(chat_id, settings.mutedChats) THEN <<FALSE, "chat_muted">>
    ELSE IF ~settings.enabled THEN <<FALSE, "global_off">>
    ELSE IF chat_type = "group" /\ ~settings.groupsEnabled THEN <<FALSE, "groups_off">>
    ELSE IF chat_type # "group" /\ ~settings.contactsEnabled THEN <<FALSE, "contacts_off">>
    ELSE IF chat_type = "group" /\ In(chat_id, settings.ignoredGroups)
         THEN <<FALSE, "group_ignored">>
    ELSE IF chat_type # "group" /\ In(sender_id, settings.ignoredContacts)
         THEN <<FALSE, "contact_ignored">>
    ELSE <<TRUE, "ok">>

server_should_notify(settings, chat_type, chat_id, sender_id) ==
    IF ~Get(settings, "enabled", TRUE) THEN <<FALSE, "global_off">>
    ELSE IF chat_type = "group" /\ ~Get(settings, "groupsEnabled", TRUE)
         THEN <<FALSE, "groups_off">>
    ELSE IF chat_type # "group" /\ ~Get(settings, "contactsEnabled", TRUE)
         THEN <<FALSE, "contacts_off">>
    ELSE IF In(chat_id, Get(settings, "mutedChats", <<>>)) THEN <<FALSE, "chat_muted">>
    ELSE IF chat_type = "group"
         THEN IF In(chat_id, Get(settings, "ignoredGroups", <<>>))
              THEN <<FALSE, "group_ignored">>
              ELSE <<TRUE, "ok">>
    ELSE IF In(sender_id, Get(settings, "ignoredContacts", <<>>))
         THEN <<FALSE, "contact_ignored">>
    ELSE <<TRUE, "ok">>

-----------------------------------------------------------------------------
(* Payload *)

build_common_data(chat_id, chat_type, sender_id, receiver_id, sender_name, sender_photo, chat_name, chat_photo, preview, title, body) ==
    [type |-> "chat_message", chat_id |-> chat_id, chat_type |-> chat_type,
     sender_id |-> sender_id, receiver_id |-> receiver_id,
     sender_name |-> sender_name, sender_photo |-> Or(sender_photo, ""),
     chat_name |-> chat_name, chat_photo |-> Or(chat_photo, ""),
     preview |-> Or(preview, ""), title |-> Or(title, ""), body |-> Or(body, "")]

\* a truncation that cuts three characters earlier and marks the cut
MutPreviewPlainEllipsis(content) ==
    LET c == Or(content, "")
    IN IF Len(c) > PREVIEW_MAX THEN SubSeq(c, 1, PREVIEW_MAX - 3) \o "..." ELSE c

\* (req.content or "")[:120]
preview_plain(content) ==
    LET c == Or(content, "") IN SubSeq(c, 1, Min(Len(c), PREVIEW_MAX))

\* title and body rules of the two chat kinds exchanged
MutTitleBodySwapped(chat_type, chat_name, sender_name, preview) ==
    IF chat_type = "group"
    THEN [title |-> sender_name, body |-> preview]
    ELSE [title |-> chat_name, body |-> sender_name \o ": " \o preview]

\* title_base, body_base
title_body(chat_type, chat_name, sender_name, preview) ==
    IF chat_type = "group"
    THEN [title |-> chat_name, body |-> sender_name \o ": " \o preview]
    ELSE [title |-> sender_name, body |-> preview]

-----------------------------------------------------------------------------
(* The store the requests run against *)

\* snapshot of collection/{id}; an id the collection holds no document for
\* (the empty id included) does not exist
Snap(coll, id) == IF id \in DOMAIN coll THEN coll[id] ELSE NoDoc

\* a users/{uid} document: a profile with restrictive notification settings
UserDoc(u) ==
    Doc([name |-> "Name of " \o u,
         notificationSettings |-> [groupsEnabled |-> FALSE,
                                   ignoredContacts |-> <<"u1">>]])

ParticipantLists == SeqsUpTo(Uids, MaxParticipants)

ChatDocs ==
    {Doc([type |-> k, name |-> "Team", groupPhotoUrl |-> "team.png",
          participants |-> p]) : k \in Kinds, p \in ParticipantLists}
    \cup {Doc([members |-> p]) : p \in ParticipantLists}

Contents == {"hello"}
Senders == {"u1"}
\* the users a send-notif request of Senders can resolve as recipients
Receivers == Users \ Senders

NoRequest == [sender_id |-> None, chat_id |-> None, content |-> None]
NoMeta == [status |-> 0]
NoProfile == [displayName |-> None, photoURL |-> None]
NoLook == [user |-> None, token |-> None]

Idle ==
    /\ pc = "idle"
    /\ req = NoRequest
    /\ meta = NoMeta
    /\ target_uids = <<>>
    /\ sender = NoProfile
    /\ title_base = None
    /\ body_base = None
    /\ idx = 0
    /\ sent = <<>>
    /\ skipped = <<>>
    /\ status = 0
    /\ calls = <<>>
    /\ outbox = <<>>

Init ==
    /\ \E d \in ChatDocs \cup {NoDoc} :
          chats = [c \in ChatIds |-> IF c = "c1" THEN d ELSE NoDoc]
    /\ \E S \in SUBSET Users :
          users = [u \in Users |-> IF u \in S THEN UserDoc(u) ELSE NoDoc]
    /\ \E S \in SUBSET Receivers :
          userTokens = [u \in Users |->
                          IF u \in S THEN Doc([token |-> "tok1", userId |-> u,
                                               updatedAt |-> "SERVER_TIMESTAMP"])
                          ELSE NoDoc]
    /\ Idle
    /\ lastReg = [u \in Users |-> None]
    /\ looked = NoLook
    /\ arg = None
    /\ ret = None

-----------------------------------------------------------------------------
(* POST /api/messages/send-notif *)

\* one call to the store or the provider: ok is FALSE when it raised
Call(op, id, i, ok) == [op |-> op, id |-> id, i |-> i, ok |-> ok]

Fail(code) ==
    /\ pc' = "failed"
    /\ status' = code

\* the request arrives
StartRequest(sender_id, chat_id, content) ==
    /\ pc = "idle"
    /\ pc' = "meta"
    /\ req' = [sender_id |-> sender_id, chat_id |-> chat_id, content |-> content]
    /\ UNCHANGED <<store, meta, target_uids, sender, title_base, body_base, idx,
                   sent, skipped, status, calls, outbox, lastReg, looked, arg, ret>>

\* meta = get_chat_metadata(req.chat_id); readOk: the store read did not raise
GetChatMetadata(readOk) ==
    /\ pc = "meta"
    /\ calls' = Append(calls, Call("chat", req.chat_id, 0, readOk))
    /\ LET m == get_chat_metadata(Snap(chats, req.chat_id))
       IN IF ~readOk THEN Fail(HTTP_SERVER_ERROR) /\ UNCHANGED meta
          ELSE IF m.status # HTTP_OK THEN Fail(m.status) /\ UNCHANGED meta
          ELSE meta' = m /\ pc' = "resolve" /\ UNCHANGED status
    /\ UNCHANGED <<store, req, target_uids, sender, title_base, body_base, idx,
                   sent, skipped, outbox, lastReg, looked, arg, ret>>

\* a resolution that treats every chat as a group
MutResolveTargetsAllOthers ==
    /\ pc = "resolve"
    /\ LET t == list_group_receivers(meta.participants, req.sender_id)
       IN IF t = <<>> THEN Fail(HTTP_BAD_REQUEST) /\ UNCHANGED target_uids
          ELSE target_uids' = t /\ pc' = "profile" /\ UNCHANGED status
    /\ UNCHANGED <<store, req, meta, sender, title_base, body_base, idx,
                   sent, skipped, calls, outbox, lastReg, looked, arg, ret>>

\* target_uids by chat type, or HTTP 400
ResolveTargets ==
    /\ pc = "resolve"
    /\ LET ind == get_individual_receiver(meta.participants, req.sender_id)
           t == IF meta.type = "group"
                THEN list_group_receivers(meta.participants, req.sender_id)
                ELSE <<ind.val>>
       IN IF meta.type # "group" /\ ind.status # HTTP_OK
          THEN Fail(ind.status) /\ UNCHANGED target_uids
          ELSE IF t = <<>> THEN Fail(HTTP_BAD_REQUEST) /\ UNCHANGED target_uids
          ELSE target_uids' = t /\ pc' = "profile" /\ UNCHANGED status
    /\ UNCHANGED <<store, req, meta, sender, title_base, body_base, idx,
                   sent, skipped, calls, outbox, lastReg, looked, arg, ret>>

\* sender profile, preview, title_base and body_base
GetSenderProfile(readOk) ==
    /\ pc = "profile"
    /\ calls' = Append(calls, Call("profile", req.sender_id, 0, readOk))
    /\ IF ~readOk
       THEN Fail(HTTP_SERVER_ERROR) /\ UNCHANGED <<sender, title_base, body_base, idx>>
       ELSE LET prof == get_user_profile(Snap(users, req.sender_id))
                tb == title_body(meta.type, meta.name, prof.displayName,
                                 preview_plain(req.content))
            IN /\ sender' = prof
               /\ title_base' = tb.title
               /\ body_base' = tb.body
               /\ idx' = 1
               /\ pc' = "fanout"
               /\ UNCHANGED status
    /\ UNCHANGED <<store, req, meta, target_uids, sent, skipped, outbox,
                   lastReg, looked, arg, ret>>

\* what the provider does with one messaging.send
ProviderOutcomes == {"send_ok", "send_unregistered", "send_error"}
\* what the environment does during one loop iteration: the first call that
\* raises, or the provider's answer when no store read raises
Envs == {"settings_fail", "token_fail"} \cup ProviderOutcomes

\* send_data_only_to_token: the message id, or the provider's exception re-raised
send_data_only_to_token(token, data, provider) ==
    IF provider = "send_ok"
    THEN [raised |-> FALSE, res |-> CHOOSE m \in MsgIds : TRUE]
    ELSE [raised |-> TRUE, res |-> None]

Skip(receiver_id, reason) == [receiver_id |-> receiver_id, reason |-> reason]

\* one iteration of the loop over target_uids: the calls it makes and what it
\* appends to sent, skipped and the provider's outbox
Iteration(receiver_id, i, env) ==
    LET cS == Call("settings", receiver_id, i, env # "settings_fail")
        cT == Call("token", receiver_id, i, env # "token_fail")
        cP == Call("send", receiver_id, i, env = "send_ok")
        settings == get_user_notification_settings(Snap(users, receiver_id))
        gate == server_should_notify(settings, meta.type, req.chat_id, req.sender_id)
        token == get_fcm_token_for_user(Snap(userTokens, receiver_id))
        data == build_common_data(req.chat_id, meta.type, req.sender_id, receiver_id,
                                  sender.displayName, sender.photoURL, meta.name,
                                  meta.photoURL, preview_plain(req.content),
                                  title_base, body_base)
        r == send_data_only_to_token(token, data, env)
        error == <<Skip(receiver_id, "send_error")>>
    IN IF env = "settings_fail"
       THEN [calls |-> <<cS>>, sent |-> <<>>, skipped |-> error, outbox |-> <<>>]
       ELSE IF ~gate[1]
       THEN [calls |-> <<cS>>, sent |-> <<>>,
             skipped |-> <<Skip(receiver_id, gate[2])>>, outbox |-> <<>>]
       ELSE IF env = "token_fail"
       THEN [calls |-> <<cS, cT>>, sent |-> <<>>, skipped |-> error, outbox |-> <<>>]
       ELSE IF Falsy(token)
       THEN [calls |-> <<cS, cT>>, sent |-> <<>>,
             skipped |-> <<Skip(receiver_id, "no_token")>>, outbox |-> <<>>]
       ELSE [calls |-> <<cS, cT, cP>>,
             sent |-> IF r.raised THEN <<>>
                      ELSE <<[receiver_id |-> receiver_id, message_id |-> r.res]>>,
             skipped |-> IF r.raised THEN error ELSE <<>>,
             outbox |-> <<[token |-> token, data |-> data, result |-> env]>>]

\* the effect of one loop iteration it: the loop goes on at nextIdx in state
\* nextPc, with tokensAfter in the userTokens collection
FanoutApply(it, nextIdx, nextPc, tokensAfter) ==
    /\ calls' = calls \o it.calls
    /\ sent' = sent \o it.sent
    /\ skipped' = skipped \o it.skipped
    /\ outbox' = outbox \o it.outbox
    /\ idx' = nextIdx
    /\ pc' = nextPc
    /\ status' = IF nextPc = "failed" THEN HTTP_SERVER_ERROR ELSE status
    /\ userTokens' = tokensAfter
    /\ UNCHANGED <<chats, users, req, meta, target_uids, sender, title_base,
                   body_base, lastReg, looked, arg, ret>>

\* a loop that stops at the first recipient that is not sent
MutFanoutStepBreak(env) ==
    /\ pc = "fanout"
    /\ idx <= Len(target_uids)
    /\ LET it == Iteration(target_uids[idx], idx, env)
       IN FanoutApply(it, IF it.sent = <<>> THEN Len(target_uids) + 1 ELSE idx + 1,
                      "fanout", userTokens)

\* a loop whose except clause re-raises
MutFanoutStepRaise(env) ==
    /\ pc = "fanout"
    /\ idx <= Len(target_uids)
    /\ LET it == Iteration(target_uids[idx], idx, env)
           raised == \E k \in 1..Len(it.calls) : ~it.calls[k].ok
       IN FanoutApply(it, idx + 1, IF raised THEN "failed" ELSE "fanout", userTokens)

\* a loop that deletes the token the provider reports as unregistered
MutFanoutStepDeregister(env) ==
    /\ pc = "fanout"
    /\ idx <= Len(target_uids)
    /\ LET it == Iteration(target_uids[idx], idx, env)
           gone == it.outbox # <<>> /\ env = "send_unregistered"
       IN FanoutApply(it, idx + 1, "fanout",
                      IF gone THEN [userTokens EXCEPT ![target_uids[idx]] = NoDoc]
                      ELSE userTokens)

\* a loop that looks the token up before it asks the policy
MutFanoutStepTokenFirst(env) ==
    /\ pc = "fanout"
    /\ idx <= Len(target_uids)
    /\ LET u == target_uids[idx]
           early == /\ env \notin {"settings_fail", "token_fail"}
                    /\ Falsy(get_fcm_token_for_user(Snap(userTokens, u)))
           tokenless == [calls |-> <<Call("token", u, idx, TRUE)>>, sent |-> <<>>,
                         skipped |-> <<Skip(u, "no_token")>>, outbox |-> <<>>]
       IN FanoutApply(IF early THEN tokenless ELSE Iteration(u, idx, env),
                      idx + 1, "fanout", userTokens)

\* a loop that sends a second time when the provider raised
MutFanoutStepRetry(env) ==
    /\ pc = "fanout"
    /\ idx <= Len(target_uids)
    /\ LET it == Iteration(target_uids[idx], idx, env)
           again == it.outbox # <<>> /\ env # "send_ok"
       IN FanoutApply(IF again
                      THEN [it EXCEPT !.calls = it.calls \o <<Last(it.calls)>>,
                                      !.outbox = it.outbox \o it.outbox]
                      ELSE it,
                      idx + 1, "fanout", userTokens)

\* a loop that gives up on the provider once a send has raised: every later
\* recipient is skipped without a call
MutFanoutStepCircuitBreaker(env) ==
    /\ pc = "fanout"
    /\ idx <= Len(target_uids)
    /\ LET u == target_uids[idx]
           open == \E k \in 1..Len(calls) : calls[k].op = "send" /\ ~calls[k].ok
           tripped == [calls |-> <<>>, sent |-> <<>>,
                       skipped |-> <<Skip(u, "send_error")>>, outbox |-> <<>>]
       IN FanoutApply(IF open THEN tripped ELSE Iteration(u, idx, env),
                      idx + 1, "fanout", userTokens)

\* a loop whose store reads are outside the try: a failed read of the
\* settings or the token ends the request
MutFanoutStepStoreRaise(env) ==
    /\ pc = "fanout"
    /\ idx <= Len(target_uids)
    /\ FanoutApply(Iteration(target_uids[idx], idx, env), idx + 1,
                   IF env \in {"settings_fail", "token_fail"} THEN "failed" ELSE "fanout",
                   userTokens)

\* for receiver_id in target_uids: try ... except Exception
FanoutStep(env) ==
    /\ pc = "fanout"
    /\ idx <= Len(target_uids)
    /\ FanoutApply(Iteration(target_uids[idx], idx, env), idx + 1, "fanout", userTokens)

\* return {"success": True, ...}
Respond ==
    /\ pc = "fanout"
    /\ idx > Len(target_uids)
    /\ pc' = "done"
    /\ status' = HTTP_OK
    /\ UNCHANGED <<store, req, meta, target_uids, sender, title_base, body_base, idx,
                   sent, skipped, calls, outbox, lastReg, looked, arg, ret>>

\* the response has been delivered; the handler keeps nothing
Return ==
    /\ pc \in {"done", "failed"}
    /\ pc' = "idle"
    /\ req' = NoRequest
    /\ meta' = NoMeta
    /\ target_uids' = <<>>
    /\ sender' = NoProfile
    /\ title_base' = None
    /\ body_base' = None
    /\ idx' = 0
    /\ sent' = <<>>
    /\ skipped' = <<>>
    /\ status' = 0
    /\ calls' = <<>>
    /\ outbox' = <<>>
    /\ UNCHANGED <<store, lastReg, looked, arg, ret>>

Next ==
    \/ \E s \in Senders, c \in ChatIds, t \in Contents : StartRequest(s, c, t)
    \/ \E ok \in BOOLEAN : GetChatMetadata(ok)
    \/ ResolveTargets
    \/ \E ok \in BOOLEAN : GetSenderProfile(ok)
    \/ \E env \in Envs : FanoutStep(env)
    \/ Respond
    \/ Return

Spec == Init /\ [][Next]_vars

-----------------------------------------------------------------------------
(* Properties of the send-notif fanout *)

\* number of entries of a response list that name receiver uid
Count(list, uid) == Cardinality({k \in 1..Len(list) : list[k].receiver_id = uid})
\* number of the first n resolved targets that are uid
Occurs(uid, n) == Cardinality({k \in 1..n : target_uids[k] = uid})
Resolved == pc \in {"profile", "fanout", "done"} \/ (pc = "failed" /\ target_uids # <<>>)
Participants == meta.participants

\* a chat of at least two distinct, non-empty participants, the sender one
\* of them
WellFormedChat ==
    /\ meta.status = HTTP_OK
    /\ Len(Participants) >= 2
    /\ Empty \notin Range(Participants)
    /\ Cardinality(Range(Participants)) = Len(Participants)
    /\ req.sender_id \in Range(Participants)

RECURSIVE Without(_, _)
Without(p, drop) ==
    IF p = <<>> THEN <<>>
    ELSE IF Head(p) \in drop THEN Without(Tail(p), drop)
    ELSE <<Head(p)>> \o Without(Tail(p), drop)

GroupWithSender ==
    /\ Resolved
    /\ meta.type = "group"
    /\ req.sender_id \in Range(Participants)

\* C2 as stated: for a group chat with participants P and sender s in P the
\* resolved recipient list is P with s removed, in order.
C2_AsStated ==
    GroupWithSender => target_uids = Without(Participants, {req.sender_id})

\* C2 amended: for a group chat with participants P and sender s in P the
\* resolved recipient list is P with s and the empty identifiers removed, in
\* the original order, and never contains s.
C2_GroupRecipients ==
    GroupWithSender =>
       /\ target_uids = Without(Participants, {req.sender_id, Empty})
       /\ req.sender_id \notin Range(target_uids)

\* a resolved group chat whose participant list holds the sender, an empty
\* identifier and another user
C2_Witness ==
    /\ GroupWithSender
    /\ pc = "done"
    /\ Empty \in Range(Participants)
    /\ Len(Participants) = 3
    /\ Len(target_uids) = 1

\* C3: an individual chat [a, b], a # b, with sender a resolves to exactly b;
\* an individual chat with fewer than two participants fails with HTTP 400.
C3_IndividualRecipient ==
    /\ (/\ Resolved
        /\ meta.type = "individual"
        /\ Len(Participants) = 2
        /\ Participants[1] = req.sender_id
        /\ Participants[2] # req.sender_id)
       => target_uids = <<Participants[2]>>
    /\ (/\ meta.status = HTTP_OK
        /\ meta.type = "individual"
        /\ Len(Participants) < 2
        /\ pc # "resolve")
       => (pc = "failed" /\ status = HTTP_BAD_REQUEST /\ target_uids = <<>>)

\* an individual chat [u1, u2] of sender u1 answered with u2 as sole recipient
C3_Witness ==
    /\ pc = "done"
    /\ meta.type = "individual"
    /\ Participants = <<"u1", "u2">>
    /\ req.sender_id = "u1"
    /\ Len(sent) + Len(skipped) = 1

\* an individual chat with a single participant, rejected
C3_WitnessInvalid ==
    /\ pc = "failed"
    /\ meta.status = HTTP_OK
    /\ meta.type = "individual"
    /\ Len(Participants) = 1

PerRecipientOps == {"settings", "token", "send"}

\* C5 as stated (on a well-formed chat): a request whose chat and recipients
\* were resolved always ends with success: true.
C5_AsStated ==
    (WellFormedChat /\ pc \in {"done", "failed"} /\ Resolved)
       => (pc = "done" /\ status = HTTP_OK)

\* C5 amended: a request fails only at the chat-resolution step, at the
\* recipient-resolution step or at the read of the sender's profile (a store
\* failure there is an HTTP 500); once the loop has started the request always
\* ends with success: true and the sent/skipped lists, even when every
\* recipient was skipped.
C5_FailsOnlyBeforeFanout ==
    /\ pc = "failed" =>
          /\ idx = 0
          /\ status \in {HTTP_NOT_FOUND, HTTP_BAD_REQUEST, HTTP_SERVER_ERROR}
          /\ Last(calls).op \in {"chat", "profile"}
          /\ Last(calls).op = "profile" => (status = HTTP_SERVER_ERROR /\ ~Last(calls).ok)
    /\ pc = "fanout" => status = 0
    /\ pc = "done" =>
          /\ status = HTTP_OK
          /\ Len(sent) + Len(skipped) = Len(target_uids)

\* a successful response in which both recipients were skipped, one of them
\* for a failure
C5_Witness ==
    /\ pc = "done"
    /\ status = HTTP_OK
    /\ sent = <<>>
    /\ Len(skipped) = 2
    /\ \E k \in 1..2 : skipped[k].reason = "send_error"

\* no recipient resolves from the chat's participants
NoRecipient ==
    IF meta.type = "group"
    THEN Without(Participants, {req.sender_id, Empty}) = <<>>
    ELSE Len(Participants) < 2 \/ Without(Participants, {req.sender_id}) = <<>>

\* C6: a request for a chat that does not exist aborts with 404, one whose
\* participants are malformed or resolve to no recipient aborts with 400, and
\* an aborted request has made no settings read, no token lookup and no
\* delivery attempt.
C6_AbortsBeforeLoop ==
    /\ pc = "failed" =>
          /\ \A k \in 1..Len(calls) : calls[k].op \notin PerRecipientOps
          /\ sent = <<>> /\ skipped = <<>> /\ outbox = <<>>
    /\ (calls # <<>> /\ calls[1].ok /\ ~Snap(chats, req.chat_id).exists)
          => (pc = "failed" /\ status = HTTP_NOT_FOUND)
    /\ status = HTTP_NOT_FOUND => ~Snap(chats, req.chat_id).exists
    /\ (meta.status = HTTP_OK /\ pc # "resolve" /\ NoRecipient)
          => (pc = "failed" /\ status = HTTP_BAD_REQUEST)
    /\ status = HTTP_BAD_REQUEST => NoRecipient

\* a group chat that lists only its sender, rejected with 400 after the chat
\* read alone
C6_Witness ==
    /\ pc = "failed"
    /\ status = HTTP_BAD_REQUEST
    /\ meta.type = "group"
    /\ Participants = <<"u1">>
    /\ Len(calls) = 1

\* a missing chat, rejected with 404
C6_WitnessNotFound ==
    /\ pc = "failed"
    /\ status = HTTP_NOT_FOUND
    /\ Len(calls) = 1

\* C8: no step of a send-notif request changes a chat, user or push-token
\* record, a send the provider rejects as unregistered included.
C8_StoreUnchanged == [][pc # "idle" => store' = store]_vars

\* a finished request one of whose sends was rejected as unregistered
C8_Witness ==
    /\ pc = "done"
    /\ \E k \in 1..Len(outbox) : outbox[k].result = "send_unregistered"

\* the display name the sender's profile resolves to
SenderName ==
    LET snap == Snap(users, req.sender_id)
    IN IF snap.exists /\ "name" \in DOMAIN snap.data THEN snap.data["name"]
       ELSE "Utilisateur"

\* C10: every payload handed to the provider has, for a group chat, the chat's
\* display name as title and "<sender name>: <preview>" as body and, for an
\* individual chat, the sender's name as title and the preview as body; the
\* sender name is the one of the sender's profile, the same in every payload.
C10_TitleBody ==
    \A k \in 1..Len(outbox) :
       LET d == outbox[k].data
       IN /\ d.sender_name = SenderName
          /\ d.chat_type = meta.type
          /\ IF d.chat_type = "group"
             THEN /\ d.title = Snap(chats, req.chat_id).data["name"]
                  /\ d.body = SenderName \o ": " \o d.preview
             ELSE /\ d.title = SenderName
                  /\ d.body = d.preview

\* two payloads of one group request, both titled with the chat name and
\* carrying the sender's profile name in the body
C10_Witness ==
    /\ Len(outbox) = 2
    /\ outbox[1].data.receiver_id # outbox[2].data.receiver_id
    /\ \A k \in 1..2 : /\ outbox[k].data.chat_type = "group"
                       /\ outbox[k].data.title = "Team"
                       /\ outbox[k].data.body = "Name of u1: hello"

\* a payload of an individual chat
C10_WitnessIndividual ==
    /\ Len(outbox) = 1
    /\ outbox[1].data.chat_type = "individual"
    /\ outbox[1].data.title = "Utilisateur"
    /\ outbox[1].data.body = "hello"

-----------------------------------------------------------------------------
(* The settings merge and the policy gate, over every stored settings record *)

Restrict(f, S) == [k \in S |-> f[k]]

\* the values a stored notificationSettings dict may hold, field by field
SettingsValues ==
    [enabled : BOOLEAN, groupsEnabled : BOOLEAN, contactsEnabled : BOOLEAN,
     previewMode : {"full", "name-only", "none"},
     ignoredGroups : {<<>>, <<"c1">>},
     ignoredContacts : {<<>>, <<"u1">>},
     mutedChats : {<<>>, <<"c1">>}]

\* every stored notificationSettings dict: any subset of the seven keys
StoredSettings ==
    UNION {{Restrict(v, S) : v \in SettingsValues} :
              S \in SUBSET DOMAIN DEFAULT_NOTIFICATION_SETTINGS}

\* every users/{uid} snapshot: no document, a document without settings, or a
\* document with stored settings and, possibly, a top-level mutedChats list
UserSnaps ==
    {NoDoc, Doc([name |-> "Ann"])}
    \cup {Doc([notificationSettings |-> st]) : st \in StoredSettings}
    \cup {Doc([notificationSettings |-> st, mutedChats |-> m]) :
             st \in StoredSettings, m \in {<<>>, <<"c1">>}}

InitPolicy ==
    /\ chats = [c \in ChatIds |-> NoDoc]
    /\ users = [u \in Users |-> NoDoc]
    /\ userTokens = [u \in Users |-> NoDoc]
    /\ pc = "policy"
    /\ req = NoRequest
    /\ meta = NoMeta
    /\ target_uids = <<>>
    /\ sender = NoProfile
    /\ title_base = None
    /\ body_base = None
    /\ idx = 0
    /\ sent = <<>>
    /\ skipped = <<>>
    /\ status = 0
    /\ calls = <<>>
    /\ outbox = <<>>
    /\ lastReg = [u \in Users |-> None]
    /\ looked = NoLook
    /\ arg \in [snap : UserSnaps, chat_type : Kinds, chat_id : ChatIds,
                sender_id : {"u1", "u2"}]
    /\ ret = [step |-> "none"]

\* settings = get_user_notification_settings(receiver_id)
ReadSettings ==
    /\ pc = "policy"
    /\ ret.step = "none"
    /\ ret' = [step |-> "settings", settings |-> get_user_notification_settings(arg.snap)]
    /\ UNCHANGED <<store, reqvars, lastReg, looked, arg>>

\* ok, reason = server_should_notify(settings, ...)
Decide ==
    /\ pc = "policy"
    /\ ret.step = "settings"
    /\ ret' = [step |-> "gate", settings |-> ret.settings,
               gate |-> server_should_notify(ret.settings, arg.chat_type,
                                             arg.chat_id, arg.sender_id)]
    /\ UNCHANGED <<store, reqvars, lastReg, looked, arg>>

NextPolicy == ReadSettings \/ Decide

SpecPolicy == InitPolicy /\ [][NextPolicy]_vars

\* the deny rules in the order of the specification: <<applies, reason>>
Rules(st, kind, chat_id, sender_id) ==
    << <<~st.enabled, "global_off">>,
       <<kind = "group" /\ ~st.groupsEnabled, "groups_off">>,
       <<kind = "individual" /\ ~st.contactsEnabled, "contacts_off">>,
       <<chat_id \in Range(st.mutedChats), "chat_muted">>,
       <<kind = "group" /\ chat_id \in Range(st.ignoredGroups), "group_ignored">>,
       <<kind = "individual" /\ sender_id \in Range(st.ignoredContacts),
         "contact_ignored">> >>

FirstMatch(rules) ==
    IF \E i \in 1..Len(rules) : rules[i][1]
    THEN LET first == CHOOSE i \in 1..Len(rules) :
                         rules[i][1] /\ \A j \in 1..(i - 1) : ~rules[j][1]
         IN <<FALSE, rules[first][2]>>
    ELSE <<TRUE, "ok">>

\* C4: the gate's answer is the first applicable rule in the order global_off,
\* groups_off (group), contacts_off (individual), chat_muted, group_ignored
\* (group), contact_ignored (individual), else ok; settings with enabled false
\* and the chat muted give global_off.
C4_FirstMatchWins ==
    ret.step = "gate" =>
       /\ ret.gate = FirstMatch(Rules(ret.settings, arg.chat_type, arg.chat_id,
                                      arg.sender_id))
       /\ (~ret.settings.enabled /\ arg.chat_id \in Range(ret.settings.mutedChats))
             => ret.gate = <<FALSE, "global_off">>

\* settings with the global switch off and the chat muted, decided
C4_Witness ==
    /\ ret.step = "gate"
    /\ ~ret.settings.enabled
    /\ arg.chat_id \in Range(ret.settings.mutedChats)
    /\ ret.gate = <<FALSE, "global_off">>

\* the value the user's record stores for field f, if it stores one
Stores(snap, f) ==
    /\ snap.exists
    /\ \/ f = "mutedChats" /\ "mutedChats" \in DOMAIN snap.data
       \/ /\ "notificationSettings" \in DOMAIN snap.data
          /\ f \in DOMAIN snap.data["notificationSettings"]
StoredValue(snap, f) ==
    IF f = "mutedChats" /\ "mutedChats" \in DOMAIN snap.data
    THEN snap.data["mutedChats"]
    ELSE snap.data["notificationSettings"][f]

\* C9: the settings handed to the gate hold all seven fields, each the stored
\* value when the user's record stores one (the top-level mutedChats list
\* first) and the default otherwise; an absent record gives exactly the
\* defaults, and the gate then allows.
C9_SettingsFullyPopulated ==
    /\ ret.step \in {"settings", "gate"} =>
          /\ DOMAIN ret.settings = DOMAIN DEFAULT_NOTIFICATION_SETTINGS
          /\ \A f \in DOMAIN DEFAULT_NOTIFICATION_SETTINGS :
                ret.settings[f] = IF Stores(arg.snap, f) THEN StoredValue(arg.snap, f)
                                  ELSE DEFAULT_NOTIFICATION_SETTINGS[f]
          /\ ~arg.snap.exists => ret.settings = DEFAULT_NOTIFICATION_SETTINGS
    /\ (ret.step = "gate" /\ ~arg.snap.exists) => ret.gate = <<TRUE, "ok">>

\* a record that stores some fields and not others, merged
C9_Witness ==
    /\ ret.step = "gate"
    /\ Stores(arg.snap, "groupsEnabled")
    /\ ~ret.settings.groupsEnabled
    /\ ~Stores(arg.snap, "enabled")
    /\ ret.settings.enabled
    /\ Stores(arg.snap, "mutedChats")

\* an absent record, allowed
C9_WitnessAbsent ==
    /\ ret.step = "gate"
    /\ ~arg.snap.exists
    /\ ret.gate = <<TRUE, "ok">>

-----------------------------------------------------------------------------
(* POST /api/fcm/register and the token lookup *)

\* an upsert in which the fields already stored win over the new ones
MutSetMergeKeepStored(coll, id, fields) ==
    [coll EXCEPT ![id] = Doc(Merge(fields, Snap(coll, id).data))]

\* collection.document(id).set(fields, merge=True)
set_merge(coll, id, fields) ==
    [coll EXCEPT ![id] = Doc(Merge(Snap(coll, id).data, fields))]

\* register_fcm_token; writeOk: the store write did not raise (else HTTP 500)
register_fcm_token(user_id, fcm_token, writeOk) ==
    /\ pc = "idle"
    /\ IF writeOk
       THEN /\ userTokens' = set_merge(userTokens, user_id,
                                       [token |-> fcm_token, userId |-> user_id,
                                        updatedAt |-> "SERVER_TIMESTAMP"])
            /\ lastReg' = [lastReg EXCEPT ![user_id] = fcm_token]
       ELSE UNCHANGED <<userTokens, lastReg>>
    /\ UNCHANGED <<chats, users, reqvars, looked, arg, ret>>

\* token = get_fcm_token_for_user(user_id)
LookupToken(user_id) ==
    /\ pc = "idle"
    /\ looked' = [user |-> user_id,
                  token |-> get_fcm_token_for_user(Snap(userTokens, user_id))]
    /\ UNCHANGED <<store, reqvars, lastReg, arg, ret>>

InitRegistry ==
    /\ chats = [c \in ChatIds |-> NoDoc]
    /\ users = [u \in Users |-> NoDoc]
    /\ userTokens = [u \in Users |-> NoDoc]
    /\ Idle
    /\ lastReg = [u \in Users |-> None]
    /\ looked = NoLook
    /\ arg = None
    /\ ret = None

NextRegistry ==
    \/ \E u \in Users, t \in Tokens, ok \in BOOLEAN : register_fcm_token(u, t, ok)
    \/ \E u \in Users : LookupToken(u)

SpecRegistry == InitRegistry /\ [][NextRegistry]_vars

TokenOf(u) == get_fcm_token_for_user(Snap(userTokens, u))

\* C7: in every state the token looked up for a user is the token of that
\* user's latest successful register call (none if the user never
\* registered), a lookup returns it, and a register call for one user leaves
\* the token of every other user as it was.
C7_LastWriteWins ==
    /\ [](\A u \in Users : TokenOf(u) = lastReg[u])
    /\ [][\A u \in Users : LookupToken(u) => looked'.token = lastReg[u]]_vars
    /\ [][\A u \in Users, t \in Tokens, ok \in BOOLEAN :
             register_fcm_token(u, t, ok) =>
                \A v \in Users \ {u} : userTokens'[v] = userTokens[v]]_vars

\* a user registered twice, with the second token looked up, beside a user
\* who never registered and one who registered the first token
C7_Witness ==
    /\ lastReg = [u \in Users |-> IF u = "u1" THEN "tok2"
                                  ELSE IF u = "u2" THEN "tok1" ELSE None]
    /\ looked = [user |-> "u1", token |-> "tok2"]

-----------------------------------------------------------------------------
(* The preview of a message, over contents shorter and longer than the cut *)

MaxContentLen == 124

Digits == <<"0", "1", "2", "3", "4", "5", "6", "7", "8", "9">>

\* the text of n characters whose k-th character is the digit (k + shift) % 10
RECURSIVE Text(_, _)
Text(n, shift) ==
    IF n = 0 THEN "" ELSE Text(n - 1, shift) \o Digits[((n + shift) % 10) + 1]

\* the contents a request may carry: a text of any length up to MaxContentLen
PreviewContents == {Text(n, shift) : n \in 0..MaxContentLen, shift \in 0..2}

InitPreview ==
    /\ chats = [c \in ChatIds |-> NoDoc]
    /\ users = [u \in Users |-> NoDoc]
    /\ userTokens = [u \in Users |-> NoDoc]
    /\ pc = "preview"
    /\ req = NoRequest
    /\ meta = NoMeta
    /\ target_uids = <<>>
    /\ sender = NoProfile
    /\ title_base = None
    /\ body_base = None
    /\ idx = 0
    /\ sent = <<>>
    /\ skipped = <<>>
    /\ status = 0
    /\ calls = <<>>
    /\ outbox = <<>>
    /\ lastReg = [u \in Users |-> None]
    /\ looked = NoLook
    /\ arg \in PreviewContents
    /\ ret = [step |-> "none"]

\* preview_plain = (req.content or "")[:120]
Truncate ==
    /\ pc = "preview"
    /\ ret.step = "none"
    /\ ret' = [step |-> "preview", preview |-> preview_plain(arg)]
    /\ UNCHANGED <<store, reqvars, lastReg, looked, arg>>

\* the same slice applied to the preview it produced
TruncateAgain ==
    /\ pc = "preview"
    /\ ret.step = "preview"
    /\ ret' = [step |-> "again", preview |-> ret.preview,
               again |-> preview_plain(ret.preview)]
    /\ UNCHANGED <<store, reqvars, lastReg, looked, arg>>

NextPreview == Truncate \/ TruncateAgain

SpecPreview == InitPreview /\ [][NextPreview]_vars

\* the characters of c after the first n
After(c, n) == IF Len(c) > n THEN SubSeq(c, n + 1, Len(c)) ELSE ""

\* C11: the preview of a content longer than 120 characters has exactly 120
\* characters and is the beginning of the content (the content is the preview
\* followed by the content's characters after the 120th); a content of at
\* most 120 characters, the empty content included, is its own preview; and
\* the preview of a preview is that preview.
C11_PreviewTruncation ==
    ret.step # "none" =>
        LET c == arg
        IN /\ Len(c) > PREVIEW_MAX =>
                /\ Len(ret.preview) = PREVIEW_MAX
                /\ ret.preview \o After(c, PREVIEW_MAX) = c
                /\ \E shift \in 0..2 : ret.preview = Text(PREVIEW_MAX, shift)
           /\ Len(c) <= PREVIEW_MAX => ret.preview = c
           /\ ret.step = "again" => ret.again = ret.preview

\* a content of more than 120 characters cut to 120, and cut again
C11_Witness ==
    /\ ret.step = "again"
    /\ Len(arg) > PREVIEW_MAX
    /\ Len(ret.preview) = PREVIEW_MAX
    /\ ret.preview # arg

\* a content of exactly 120 characters passed through
C11_WitnessAtLimit ==
    /\ ret.step = "again"
    /\ Len(arg) = PREVIEW_MAX
    /\ ret.preview = arg

-----------------------------------------------------------------------------
(* Properties of the per-recipient loop of send-notif *)

\* the entries of target_uids the loop has gone through
Processed == IF pc \in {"fanout", "done"} THEN 1..(idx - 1) ELSE {}
\* the calls the loop made for entry i, in the order it made them
CallsAt(i) == SelectSeq(calls, LAMBDA c : c.i = i)
OpsAt(i) == [k \in 1..Len(CallsAt(i)) |-> CallsAt(i)[k].op]
\* the send for entry i returned a message id
SendOkAt(i) == \E k \in 1..Len(calls) : calls[k].i = i /\ calls[k].op = "send" /\ calls[k].ok
SentUpTo(i) == Cardinality({j \in 1..i : SendOkAt(j)})
\* the response entry of entry i: the loop appends one entry per iteration,
\* to sent when the send returned and to skipped otherwise
OutcomeAt(i) ==
    IF SendOkAt(i)
    THEN [list |-> "sent", entry |-> sent[SentUpTo(i)]]
    ELSE [list |-> "skipped", entry |-> skipped[i - SentUpTo(i)]]
\* every processed entry has its response entry
OutcomesRecorded ==
    \A i \in Processed :
       /\ SentUpTo(i) <= Len(sent)
       /\ i - SentUpTo(i) <= Len(skipped)
\* the policy's answer for user u, from u's stored settings
PolicyOf(u) ==
    server_should_notify(get_user_notification_settings(Snap(users, u)),
                         meta.type, req.chat_id, req.sender_id)

\* C12: for every recipient the loop has processed, the calls made are, in
\* this order, the settings read, then the token lookup, then the send; the
\* token lookup is made only if the settings were read and the policy
\* allowed, the send only if the lookup returned a token; a recipient the
\* policy denies has the settings read as only call and is skipped with the
\* policy's reason (also when they have no token); an allowed recipient
\* without a token is skipped with no_token and no send; and a recipient is
\* in sent only with a send of theirs that returned a message id.
C12_StepsGateEachOther ==
    /\ OutcomesRecorded
    /\ \A i \in Processed :
          LET u == target_uids[i]
              cs == CallsAt(i)
              ops == OpsAt(i)
              o == OutcomeAt(i)
          IN /\ ops \in {<<"settings">>, <<"settings", "token">>,
                         <<"settings", "token", "send">>}
             /\ \A k \in 1..Len(cs) : cs[k].id = u
             /\ Len(ops) >= 2 => (cs[1].ok /\ PolicyOf(u)[1])
             /\ Len(ops) = 3 => (cs[2].ok /\ ~Falsy(TokenOf(u)))
             /\ (cs[1].ok /\ ~PolicyOf(u)[1]) =>
                   /\ ops = <<"settings">>
                   /\ o = [list |-> "skipped", entry |-> Skip(u, PolicyOf(u)[2])]
             /\ (Len(ops) >= 2 /\ cs[2].ok /\ Falsy(TokenOf(u))) =>
                   /\ ops = <<"settings", "token">>
                   /\ o = [list |-> "skipped", entry |-> Skip(u, "no_token")]
             /\ o.list = "sent" =>
                   /\ Len(ops) = 3
                   /\ cs[3].ok
                   /\ o.entry.receiver_id = u
                   /\ o.entry.message_id \in MsgIds
                   /\ \E k \in 1..Len(outbox) :
                         /\ outbox[k].data.receiver_id = u
                         /\ outbox[k].token = TokenOf(u)
                         /\ outbox[k].result = "send_ok"

\* a group request answered with a recipient who is denied and has no token,
\* skipped with the policy's reason, and an allowed recipient without a
\* token, skipped with no_token
C12_Witness ==
    /\ pc = "done"
    /\ target_uids = <<"u2", "u3">>
    /\ Falsy(TokenOf("u2"))
    /\ skipped = <<Skip("u2", "groups_off"), Skip("u3", "no_token")>>
    /\ OpsAt(1) = <<"settings">>
    /\ OpsAt(2) = <<"settings", "token">>

\* a request answered with a denied recipient and a delivered one
C12_WitnessSent ==
    /\ pc = "done"
    /\ Len(target_uids) = 2
    /\ skipped = <<Skip(target_uids[1], "groups_off")>>
    /\ Len(sent) = 1
    /\ sent[1].receiver_id = target_uids[2]
    /\ OpsAt(2) = <<"settings", "token", "send">>

\* number of calls of operation op the loop made for entry i
Attempts(i, op) == Cardinality({k \in 1..Len(calls) : calls[k].i = i /\ calls[k].op = op})
\* number of calls of operation op made for user u
AttemptsFor(u, op) ==
    Cardinality({k \in 1..Len(calls) : calls[k].i > 0 /\ calls[k].id = u /\ calls[k].op = op})

SendsUpTo(i) == Cardinality({j \in 1..i : Attempts(j, "send") >= 1})
\* what the calls made for entry i returned: whether the settings read and
\* the token lookup returned, and the provider's answer ("none": no send)
ResultAt(i) ==
    [settings |-> ~\E k \in 1..Len(calls) :
                     calls[k].i = i /\ calls[k].op = "settings" /\ ~calls[k].ok,
     token |-> ~\E k \in 1..Len(calls) :
                  calls[k].i = i /\ calls[k].op = "token" /\ ~calls[k].ok,
     send |-> IF Attempts(i, "send") >= 1 /\ SendsUpTo(i) <= Len(outbox)
              THEN outbox[SendsUpTo(i)].result ELSE "none"]
\* the outcome of user u from the request's shared inputs, u's own settings
\* and token, and what u's own calls returned
OwnOutcome(u, r) ==
    IF ~r.settings THEN [list |-> "skipped", receiver_id |-> u, what |-> "send_error"]
    ELSE IF ~PolicyOf(u)[1]
    THEN [list |-> "skipped", receiver_id |-> u, what |-> PolicyOf(u)[2]]
    ELSE IF ~r.token THEN [list |-> "skipped", receiver_id |-> u, what |-> "send_error"]
    ELSE IF Falsy(TokenOf(u))
    THEN [list |-> "skipped", receiver_id |-> u, what |-> "no_token"]
    ELSE IF r.send = "send_ok"
    THEN [list |-> "sent", receiver_id |-> u, what |-> "message id"]
    ELSE IF r.send = "none"
    THEN [list |-> "none", receiver_id |-> u, what |-> "no send"]
    ELSE [list |-> "skipped", receiver_id |-> u, what |-> "send_error"]
\* the response entry of entry i in the shape of OwnOutcome
RecordedAt(i) ==
    LET o == OutcomeAt(i)
    IN [list |-> o.list, receiver_id |-> o.entry.receiver_id,
        what |-> IF o.list = "skipped" THEN o.entry.reason
                 ELSE IF o.entry.message_id \in MsgIds THEN "message id"
                 ELSE "no message id"]
IsPrefix(a, b) == Len(a) <= Len(b) /\ SubSeq(b, 1, Len(a)) = a

C14_WitnessAnyPosition ==
    /\ pc = "done"
    /\ target_uids = <<"u2", "u3", "u2">>
    /\ RecordedAt(1).list = "sent"
    /\ RecordedAt(2).list = "skipped"
    /\ RecordedAt(3) = RecordedAt(1)

\* C15 as stated (on a chat that lists its sender and no empty id): the
\* resolved target list leaves the sender out and holds no identifier twice,
\* so no recipient has two outcomes or two delivery attempts in one request.
C15_AsStated ==
    (Resolved /\ req.sender_id \in Range(Participants) /\ Empty \notin Range(Participants)) =>
       /\ req.sender_id \notin Range(target_uids)
       /\ \A i, j \in 1..Len(target_uids) : target_uids[i] = target_uids[j] => i = j
       /\ \A u \in Range(target_uids) :
             /\ Count(sent, u) + Count(skipped, u) <= 1
             /\ AttemptsFor(u, "send") <= 1

\* C16: a loop step in which a call raised (the settings read, the token
\* lookup or the send) appends the entry skipped/send_error for the
\* recipient of that step and nothing else to the response, leaves the
\* request running and moves on to the next recipient; no request has
\* failed once its loop has made a call.
C16_LoopCatchesEverything ==
    /\ [][(pc = "fanout" /\ \E k \in (Len(calls) + 1)..Len(calls') : ~calls'[k].ok) =>
             /\ pc' = "fanout"
             /\ status' = status
             /\ idx' = idx + 1
             /\ skipped' = Append(skipped, Skip(target_uids[idx], "send_error"))
             /\ sent' = sent]_vars
    /\ [](pc = "failed" => \A k \in 1..Len(calls) : calls[k].i = 0)
    /\ [](pc = "done" => Len(sent) + Len(skipped) = Len(target_uids))

\* a request answered after the settings read of the first recipient raised:
\* they are skipped with send_error and the second recipient is delivered
C16_Witness ==
    /\ pc = "done"
    /\ status = HTTP_OK
    /\ Len(target_uids) = 2
    /\ OpsAt(1) = <<"settings">>
    /\ ~CallsAt(1)[1].ok
    /\ skipped = <<Skip(target_uids[1], "send_error")>>
    /\ Len(sent) = 1
    /\ sent[1].receiver_id = target_uids[2]

\* the same with the token lookup of the first recipient raising
C16_WitnessToken ==
    /\ pc = "done"
    /\ status = HTTP_OK
    /\ Len(target_uids) = 2
    /\ OpsAt(1) = <<"settings", "token">>
    /\ ~CallsAt(1)[2].ok
    /\ skipped = <<Skip(target_uids[1], "send_error")>>
    /\ Len(sent) = 1

\* the first participant, in list order, whose id is not the sender's
FirstOther ==
    Participants[CHOOSE k \in 1..Len(Participants) :
                    /\ Participants[k] # req.sender_id
                    /\ \A j \in 1..(k - 1) : Participants[j] = req.sender_id]

\* C17: a request on a chat whose kind is not group, once its recipients are
\* resolved, has exactly one target: the first participant in list order
\* whose id differs from the sender's, also when the chat lists more than
\* two participants or does not list the sender; its loop processes that one
\* target, and its response holds exactly one entry across sent and skipped.
C17_NonGroupSingleRecipient ==
    (Resolved /\ meta.type # "group") =>
       /\ Len(Participants) >= 2
       /\ target_uids = <<FirstOther>>
       /\ \A k \in 1..Len(calls) : calls[k].i <= 1
       /\ pc = "done" => Len(sent) + Len(skipped) = 1

\* a non-group chat of three participants that does not list the sender,
\* answered with one entry for the first of them
C17_Witness ==
    /\ pc = "done"
    /\ meta.type # "group"
    /\ Participants = <<"u2", "u3", "u2">>
    /\ req.sender_id = "u1"
    /\ target_uids = <<"u2">>
    /\ Len(sent) + Len(skipped) = 1

\* a chat without a type, of three participants with the sender first
C17_WitnessUntyped ==
    /\ pc = "done"
    /\ "type" \notin DOMAIN chats["c1"].data
    /\ Participants = <<"u1", "u3", "u2">>
    /\ target_uids = <<"u3">>
    /\ Len(sent) + Len(skipped) = 1

====
